---- MODULE Spec2Model ----
(***************************************************************************)
(* GKCSearch, src/main.rs: the sheet ingestion pipeline.                   *)
(*   fetch_sheet_data_from_google  fetch the CSV export and normalize it   *)
(*   fetch_sheet_data              the same behind the data_cache.json     *)
(*                                 file, served while younger than         *)
(*                                 CACHE_DURATION                          *)
(* Strings are sequences of one-character strings, so that trim() and      *)
(* format!("column_{}", i) are computed and not assumed.  Time is counted  *)
(* in seconds.  The cache file is a sequence of chunks (see ToStringPretty)*)
(* with a last-write time.  Every .await of fetch_sheet_data is one step   *)
(* of a call; calls interleave freely, as actix-web runs the handlers.     *)
(***************************************************************************)
EXTENDS Integers, Sequences, FiniteSets, TLC

\* ------------------------------------------------------------------ bounds
\* Number of fetch_sheet_data calls (requests to /data) in a behaviour.
MaxCalls == 2
\* Number of times the wall clock is moved while the calls run.
MaxTicks == 2

Calls == 1..MaxCalls

\* ----------------------------------------------------------------- strings
Zip == <<"Z", "i", "p">>
Country == <<"C", "o", "u", "n", "t", "r", "y">>
ColumnPrefix == <<"c", "o", "l", "u", "m", "n", "_">>
DigitChars == <<"0", "1", "2", "3", "4", "5", "6", "7", "8", "9">>

\* char::is_whitespace, over the characters the sheets below use.
IsWhitespace(ch) == ch = " "

RECURSIVE TrimStart(_)
TrimStart(s) ==
    IF s # <<>> /\ IsWhitespace(Head(s)) THEN TrimStart(Tail(s)) ELSE s

RECURSIVE TrimEnd(_)
TrimEnd(s) ==
    IF s # <<>> /\ IsWhitespace(s[Len(s)])
    THEN TrimEnd(SubSeq(s, 1, Len(s) - 1))
    ELSE s

\* str::trim
Trim(s) == TrimEnd(TrimStart(s))

\* The decimal digits of i, as format!("{}", i) prints them.
RECURSIVE Decimal(_)
Decimal(i) ==
    IF i < 10
    THEN <<DigitChars[i + 1]>>
    ELSE Decimal(i \div 10) \o <<DigitChars[(i % 10) + 1]>>

\* format!("column_{}", i)
ColumnKey(i) == ColumnPrefix \o Decimal(i)

\* ----------------------------------------------------------------- results
\* Result<Value, Box<dyn Error>>
Ok(json) == [ok |-> TRUE, val |-> json, err |-> "none"]
Err(what) == [ok |-> FALSE, val |-> <<>>, err |-> what]
Pending == [ok |-> FALSE, val |-> <<>>, err |-> "pending"]

\* -------------------------------------------------------------- normalizer
\* A record of the CSV reader is a sequence of fields; i is zero-based.
\* rdr.records() yields results: a record, or the reader's error.
Rec(record) == [ok |-> TRUE, rec |-> record]
DecodeError == [ok |-> FALSE, rec |-> <<>>]
AllOk(rows) == [i \in 1..Len(rows) |-> Rec(rows[i])]

\* A loop that skips no row.
IsEmptyRowNever(record) == FALSE

\* record.iter().all(|f| f.trim().is_empty())
IsEmptyRow(record) == \A i \in 1..Len(record) : Trim(record[i]) = <<>>

\* A header test that takes any row of two cells.
IsHeaderRowAnyPair(record) == Len(record) >= 2

\* record.len() >= 2 && record.get(1).map(|s| s.trim()) == Some("Zip")
IsHeaderRow(record) == Len(record) >= 2 /\ Trim(record[2]) = Zip

\* The key of field i of a data row: the trimmed header cell, or column_<i>.
FieldKey(header, i) ==
    IF i < Len(header) /\ Trim(header[i + 1]) # <<>>
    THEN Trim(header[i + 1])
    ELSE ColumnKey(i)

\* A map with an entry for every header column, empty for the cells the
\* row does not have.
JsonRecordPadded(header, record) ==
    LET n == IF Len(header) > Len(record) THEN Len(header) ELSE Len(record)
        padded == [i \in 1..n |-> IF i <= Len(record) THEN record[i] ELSE <<>>]
    IN  [k \in {FieldKey(header, i) : i \in 0..(n - 1)} |->
            Trim(padded[(CHOOSE i \in 0..(n - 1) :
                            /\ FieldKey(header, i) = k
                            /\ \A j \in 0..(n - 1) :
                                  FieldKey(header, j) = k => j <= i) + 1])]

\* The map built by the inserts of one data row, in field order: a later
\* insert under a key already present replaces the value.
JsonRecord(header, record) ==
    LET keys == {FieldKey(header, i) : i \in 0..(Len(record) - 1)}
        last(k) == CHOOSE i \in 0..(Len(record) - 1) :
                      /\ FieldKey(header, i) = k
                      /\ \A j \in 0..(Len(record) - 1) :
                            FieldKey(header, j) = k => j <= i
    IN  [k \in keys |-> Trim(record[last(k) + 1])]

\* A removal that forgets column_0.
RemoveCountryOnly(map) == [k \in (DOMAIN map) \ {Country} |-> map[k]]

\* map.remove("Country"); map.remove("column_0");
RemoveUnwanted(map) ==
    [k \in (DOMAIN map) \ {Country, ColumnKey(0)} |-> map[k]]

\* A loop that stops at the reader's error and keeps the records so far.
RECURSIVE ScanRowsPartial(_, _, _)
ScanRowsPartial(results, header, records) ==
    IF results = <<>> THEN Ok(records)
    ELSE IF ~Head(results).ok THEN Ok(records)
    ELSE LET record == Head(results).rec IN
         IF IsEmptyRow(record) THEN ScanRowsPartial(Tail(results), header, records)
         ELSE IF header = <<>>
              THEN IF IsHeaderRow(record)
                   THEN ScanRowsPartial(Tail(results), <<record>>, records)
                   ELSE ScanRowsPartial(Tail(results), header, records)
              ELSE ScanRowsPartial(Tail(results), header,
                                   Append(records, JsonRecord(header[1], record)))

\* A loop that takes every row passing the header test as a new header.
RECURSIVE ScanRowsReheading(_, _, _)
ScanRowsReheading(results, header, records) ==
    IF results = <<>> THEN Ok(records)
    ELSE IF ~Head(results).ok THEN Err("decode")
    ELSE LET record == Head(results).rec IN
         IF IsEmptyRow(record) THEN ScanRowsReheading(Tail(results), header, records)
         ELSE IF IsHeaderRow(record)
              THEN ScanRowsReheading(Tail(results), <<record>>, records)
              ELSE IF header = <<>>
                   THEN ScanRowsReheading(Tail(results), header, records)
                   ELSE ScanRowsReheading(Tail(results), header,
                                          Append(records, JsonRecord(header[1], record)))

\* The loop over rdr.records(): header is <<>> while header_record is None,
\* and <<h>> once it is Some(h).  `result?` returns the reader's error.
RECURSIVE ScanRows(_, _, _)
ScanRows(results, header, records) ==
    IF results = <<>> THEN Ok(records)
    ELSE IF ~Head(results).ok THEN Err("decode")
    ELSE LET record == Head(results).rec IN
         IF IsEmptyRow(record) THEN ScanRows(Tail(results), header, records)
         ELSE IF header = <<>>
              THEN IF IsHeaderRow(record)
                   THEN ScanRows(Tail(results), <<record>>, records)
                   ELSE ScanRows(Tail(results), header, records)
              ELSE ScanRows(Tail(results), header,
                            Append(records, JsonRecord(header[1], record)))

\* The records of the reader's results with the unwanted keys removed, or
\* the reader's error.
RemoveUnwantedAll(scanned) ==
    IF scanned.ok
    THEN Ok([i \in 1..Len(scanned.val) |-> RemoveUnwanted(scanned.val[i])])
    ELSE scanned

Normalize(results) == RemoveUnwantedAll(ScanRows(results, <<>>, <<>>))

\* ------------------------------------------------------------ text to rows
\* U+FEFF, one character of the text.
BOM == "BOM"

\* A text left as it came.
KeepBom(text) == text

\* response.trim_start_matches('\u{feff}')
RECURSIVE TrimStartMatchesBom(_)
TrimStartMatchesBom(text) ==
    IF text # <<>> /\ Head(text) = BOM THEN TrimStartMatchesBom(Tail(text)) ELSE text

\* The pieces of s between the occurrences of ch; at least one piece.
RECURSIVE SplitOn(_, _)
SplitOn(s, ch) ==
    IF \A i \in 1..Len(s) : s[i] # ch THEN <<s>>
    ELSE LET at == CHOOSE i \in 1..Len(s) :
                      s[i] = ch /\ \A j \in 1..(i - 1) : s[j] # ch
         IN  <<SubSeq(s, 1, at - 1)>> \o SplitOn(SubSeq(s, at + 1, Len(s)), ch)

\* response.lines().next().unwrap_or("")
FirstLine(text) == SplitOn(text, "\n")[1]

\* first_line.matches(ch).count()
MatchCount(line, ch) == Cardinality({i \in 1..Len(line) : line[i] = ch})

\* A choice that gives a tie to the semicolon.
DelimiterTieSemicolon(text) ==
    IF MatchCount(FirstLine(text), ";") >= MatchCount(FirstLine(text), ",")
    THEN ";" ELSE ","

\* if semicolon_count > comma_count { b';' } else { b',' }
Delimiter(text) ==
    IF MatchCount(FirstLine(text), ";") > MatchCount(FirstLine(text), ",")
    THEN ";" ELSE ","

\* The records of a csv::Reader built with this delimiter, has_headers(false)
\* and flexible(true), over a text without quotes or carriage returns: one
\* record per line that is not empty, its fields split at the delimiter.
ReaderRecords(text, delimiter) ==
    LET lines == SelectSeq(SplitOn(text, "\n"), LAMBDA l : l # <<>>)
    IN  [i \in 1..Len(lines) |-> Rec(SplitOn(lines[i], delimiter))]

\* ------------------------------------------------------------------- JSON
\* serde_json::to_string_pretty of an array of objects, in chunks: the
\* opening bracket, one chunk per object, the closing bracket.
Open == [t |-> "[", v |-> <<>>]
Close == [t |-> "]", v |-> <<>>]
Obj(map) == [t |-> "{}", v |-> map]

ToStringPretty(json) ==
    <<Open>> \o [i \in 1..Len(json) |-> Obj(json[i])] \o <<Close>>

\* serde_json::from_str accepts one complete value and nothing after it.
WellFormed(text) ==
    /\ Len(text) >= 2
    /\ text[1].t = "["
    /\ text[Len(text)].t = "]"
    /\ \A i \in 2..(Len(text) - 1) : text[i].t = "{}"

FromStr(text) ==
    IF WellFormed(text)
    THEN [ok |-> TRUE, val |-> [i \in 1..(Len(text) - 2) |-> text[i + 1].v]]
    ELSE [ok |-> FALSE, val |-> <<>>]

\* ------------------------------------------------------------------ sheets
\* What the export URL can answer: a transport failure, or one of these
\* tables (the CSV reader's records).
SheetKS ==
    << <<<<"T">>>>,
       <<<<"S">>, <<" ", "Z", "i", "p">>>>,
       <<<<"K">>, <<"1">>>> >>
SheetMO ==
    << <<<<"S">>, <<"Z", "i", "p">>>>,
       <<<<"M">>, <<"2", " ">>>> >>
SheetNoHeader ==
    << <<<<"S">>, <<"Z", "i">>>>,
       <<<<"K">>, <<"1">>>> >>
Sheets == {SheetKS, SheetMO, SheetNoHeader}
\* Tables the reader cannot decode: at the third row, and at the first.
SheetBroken == Append(AllOk(SheetMO), DecodeError)
SheetBrokenFirst == <<DecodeError>> \o AllOk(SheetMO)

Responses ==
    {[ok |-> FALSE, rows |-> <<>>]}
        \cup {[ok |-> TRUE, rows |-> AllOk(s)] : s \in Sheets}
        \cup {[ok |-> TRUE, rows |-> SheetBroken],
              [ok |-> TRUE, rows |-> SheetBrokenFirst]}

\* ------------------------------------------------------------------- cache
\* const CACHE_DURATION: Duration = Duration::from_secs(12 * 60 * 60);
CACHE_DURATION == 12 * 60 * 60

\* An elapsed time that is the distance between the two times, never an error.
ElapsedEitherWay(modified, clock) ==
    [ok |-> TRUE,
     d |-> IF modified <= clock THEN clock - modified ELSE modified - clock]

\* SystemTime::elapsed: the time since `modified`, an error when `modified`
\* is later than the clock.
Elapsed(modified, clock) ==
    IF modified <= clock
    THEN [ok |-> TRUE, d |-> clock - modified]
    ELSE [ok |-> FALSE, d |-> 0]

\* A freshness test that also serves a file of exactly CACHE_DURATION.
IsYoungInclusive(elapsed) == elapsed <= CACHE_DURATION

\* elapsed < CACHE_DURATION
IsYoung(elapsed) == elapsed < CACHE_DURATION

\* The nested `if let Ok(..)` of the freshness check: metadata, its modified
\* time and the elapsed time must all be Ok, and the age below the duration.
UseCache(f, clock, metaOk, modOk) ==
    /\ f.exists /\ metaOk
    /\ modOk
    /\ Elapsed(f.mtime, clock).ok
    /\ IsYoung(Elapsed(f.mtime, clock).d)

\* fs::File::create: the file exists and is empty, its handle is at offset 0.
Truncated(f, clock) == [exists |-> TRUE, content |-> <<>>, mtime |-> clock]

\* A write that appends to whatever the file holds.
WrittenAppended(f, bytes, clock) ==
    [exists |-> TRUE, content |-> f.content \o bytes, mtime |-> clock]

\* file.write_all through a handle at offset 0: the bytes replace the start
\* of the file, what lies beyond them stays.
Written(f, bytes, clock) ==
    [exists |-> TRUE,
     content |-> bytes \o SubSeq(f.content, Len(bytes) + 1, Len(f.content)),
     mtime |-> clock]

\* The normalizer run: its stage and what each stage produced.
NormRun(stage, text, stripped, delimiter, results, scanned, out) ==
    [stage |-> stage, text |-> text, stripped |-> stripped,
     delimiter |-> delimiter, results |-> results, scanned |-> scanned,
     out |-> out]
NormIdle == NormRun("idle", <<>>, <<>>, ",", <<>>, Pending, Pending)

VARIABLES
    now,        \* the wall clock, in seconds
    ticks,      \* how often the clock was moved
    file,       \* data_cache.json: exists, content, mtime
    pc,         \* where each call of fetch_sheet_data stands
    json_data,  \* each call's json_data, <<>> before its fetch
    result,     \* what each call returned
    path,       \* history: "hit" or "miss", what the freshness check decided
    seen,       \* history: the file, clock and calls as they were at the check
    readText,   \* history: the text the hit path read
    fetches,    \* history: Fetcher invocations of each call
    fetchOrder, \* history: calls in the order their fetches completed
    writeOrder, \* history: calls in the order their write_all completed
    lastChange, \* history: the call and operation that last changed the file
    undecodable,\* history: the calls whose response the reader could not decode
    norm        \* one run of the normalizer on its own: stage, input, output

cacheVars == <<now, ticks, file, pc, json_data, result, path, seen, readText,
               fetches, fetchOrder, writeOrder, lastChange, undecodable>>

vars == <<cacheVars, norm>>

NotSeen == [exists |-> FALSE, metaOk |-> FALSE, modOk |-> FALSE,
            age |-> -1, writes |-> 0, done |-> {}]

\* The age of the file at `clock`, capped at CACHE_DURATION + 1; -1 when there
\* is no file or its last-write time is later than the clock.
AgeSeen(f, clock) ==
    IF ~f.exists \/ f.mtime > clock THEN -1
    ELSE IF clock - f.mtime > CACHE_DURATION THEN CACHE_DURATION + 1
    ELSE clock - f.mtime

\* No call has been made.
CacheInit ==
    /\ now = 0
    /\ ticks = 0
    /\ file = [exists |-> FALSE, content |-> <<>>, mtime |-> 0]
    /\ pc = [c \in Calls |-> "start"]
    /\ json_data = [c \in Calls |-> <<>>]
    /\ result = [c \in Calls |-> Pending]
    /\ path = [c \in Calls |-> "none"]
    /\ seen = [c \in Calls |-> NotSeen]
    /\ readText = [c \in Calls |-> <<>>]
    /\ fetches = [c \in Calls |-> 0]
    /\ fetchOrder = <<>>
    /\ writeOrder = <<>>
    /\ lastChange = [by |-> 0, op |-> "none"]
    /\ undecodable = {}

\* The server has started: no call yet, the normalizer is not run on its own.
Init == CacheInit /\ norm = NormIdle

\* A miss that waits for another call to refresh the file, checking again.
AfterCheckWaiting(use) == IF use THEN "read" ELSE "start"

\* Where a call goes after the freshness check.
AfterCheck(use) == IF use THEN "read" ELSE "fetch"

\* Lines 90-93 and 102: fs::metadata, modified(), elapsed(), the comparison.
Check(c) ==
    /\ pc[c] = "start"
    /\ \E metaOk \in BOOLEAN, modOk \in BOOLEAN :
          LET use == UseCache(file, now, metaOk, modOk) IN
          /\ pc' = [pc EXCEPT ![c] = AfterCheck(use)]
          /\ path' = [path EXCEPT ![c] = IF use THEN "hit" ELSE "miss"]
          /\ seen' = [seen EXCEPT ![c] =
                        [exists |-> file.exists,
                         metaOk |-> file.exists /\ metaOk,
                         modOk |-> modOk,
                         age |-> AgeSeen(file, now),
                         writes |-> Len(writeOrder),
                         done |-> {d \in Calls : pc[d] = "done"}]]
    /\ UNCHANGED <<norm, undecodable, now, ticks, file, json_data, result, readText, fetches,
                   fetchOrder, writeOrder, lastChange>>

\* What the hit path returns: read_to_string(..)?, from_str(..)?, Ok.
HitResult(f, readOk) ==
    IF ~(f.exists /\ readOk) THEN Err("read")
    ELSE IF ~FromStr(f.content).ok THEN Err("parse")
    ELSE Ok(FromStr(f.content).val)

\* A hit that touches the file, renewing its last-write time.
ReadTouching(c) ==
    /\ pc[c] = "read"
    /\ \E readOk \in BOOLEAN :
          /\ result' = [result EXCEPT ![c] = HitResult(file, readOk)]
          /\ readText' = [readText EXCEPT ![c] =
                            IF file.exists /\ readOk THEN file.content ELSE <<>>]
    /\ file' = [file EXCEPT !.mtime = now]
    /\ pc' = [pc EXCEPT ![c] = "done"]
    /\ UNCHANGED <<norm, undecodable, now, ticks, json_data, path, seen, fetches,
                   fetchOrder, writeOrder, lastChange>>

\* Lines 94-97.
Read(c) ==
    /\ pc[c] = "read"
    /\ \E readOk \in BOOLEAN :
          /\ result' = [result EXCEPT ![c] = HitResult(file, readOk)]
          /\ readText' = [readText EXCEPT ![c] =
                            IF file.exists /\ readOk THEN file.content ELSE <<>>]
    /\ pc' = [pc EXCEPT ![c] = "done"]
    /\ UNCHANGED <<norm, undecodable, now, ticks, file, json_data, path, seen, fetches,
                   fetchOrder, writeOrder, lastChange>>

\* The reader fails on some row of the response.
Undecodable(resp) == resp.ok /\ \E i \in 1..Len(resp.rows) : ~resp.rows[i].ok

\* fetch_sheet_data_from_google on a response: an error or the records.
FromGoogle(resp) ==
    IF resp.ok THEN Normalize(resp.rows) ELSE Err("fetch")

\* A miss that falls back to whatever the file holds when the fetch failed.
MissFallback(f, e) ==
    IF f.exists /\ FromStr(f.content).ok
    THEN Ok(FromStr(f.content).val)
    ELSE e

\* What a call returns when fetch_sheet_data_from_google() failed: line 104's `?`.
MissFailure(f, e) == e

\* A miss that takes the records of a fetch another call has completed
\* instead of fetching itself.
FetchDeduplicated(c) ==
    /\ pc[c] = "fetch"
    /\ IF fetchOrder # <<>>
       THEN /\ json_data' = [json_data EXCEPT ![c] = json_data[fetchOrder[1]]]
            /\ fetchOrder' = Append(fetchOrder, c)
            /\ pc' = [pc EXCEPT ![c] = "create"]
            /\ UNCHANGED <<result, fetches, undecodable>>
       ELSE /\ fetches' = [fetches EXCEPT ![c] = @ + 1]
            /\ \E resp \in Responses :
                  LET got == FromGoogle(resp) IN
                  IF got.ok
                  THEN /\ json_data' = [json_data EXCEPT ![c] = got.val]
                       /\ fetchOrder' = Append(fetchOrder, c)
                       /\ pc' = [pc EXCEPT ![c] = "create"]
                       /\ UNCHANGED result
                  ELSE /\ result' = [result EXCEPT ![c] = MissFailure(file, got)]
                       /\ pc' = [pc EXCEPT ![c] = "done"]
                       /\ UNCHANGED <<json_data, fetchOrder>>
            /\ UNCHANGED undecodable
    /\ UNCHANGED <<norm, now, ticks, file, path, seen, readText, writeOrder,
                   lastChange>>

\* A miss that removes the cache file when its fetch failed.
FetchInvalidating(c) ==
    /\ pc[c] = "fetch"
    /\ fetches' = [fetches EXCEPT ![c] = @ + 1]
    /\ \E resp \in Responses :
          LET got == FromGoogle(resp) IN
          /\ undecodable' = IF Undecodable(resp) THEN undecodable \cup {c}
                                                 ELSE undecodable
          /\ IF got.ok
             THEN /\ json_data' = [json_data EXCEPT ![c] = got.val]
                  /\ fetchOrder' = Append(fetchOrder, c)
                  /\ pc' = [pc EXCEPT ![c] = "create"]
                  /\ UNCHANGED <<result, file>>
             ELSE /\ result' = [result EXCEPT ![c] = MissFailure(file, got)]
                  /\ pc' = [pc EXCEPT ![c] = "done"]
                  /\ file' = [exists |-> FALSE, content |-> <<>>, mtime |-> 0]
                  /\ UNCHANGED <<json_data, fetchOrder>>
    /\ UNCHANGED <<norm, now, ticks, path, seen, readText, writeOrder,
                   lastChange>>

\* Lines 103-107.
Fetch(c) ==
    /\ pc[c] = "fetch"
    /\ fetches' = [fetches EXCEPT ![c] = @ + 1]
    /\ \E resp \in Responses :
          LET got == FromGoogle(resp) IN
          /\ undecodable' = IF Undecodable(resp) THEN undecodable \cup {c}
                                                 ELSE undecodable
          /\ IF got.ok
             THEN /\ json_data' = [json_data EXCEPT ![c] = got.val]
                  /\ fetchOrder' = Append(fetchOrder, c)
                  /\ pc' = [pc EXCEPT ![c] = "create"]
                  /\ UNCHANGED result
             ELSE /\ result' = [result EXCEPT ![c] = MissFailure(file, got)]
                  /\ pc' = [pc EXCEPT ![c] = "done"]
                  /\ UNCHANGED <<json_data, fetchOrder>>
    /\ UNCHANGED <<norm, now, ticks, file, path, seen, readText, writeOrder,
                   lastChange>>

\* Line 108: fs::File::create(CACHE_FILE).await?
Create(c) ==
    /\ pc[c] = "create"
    /\ \E createOk \in BOOLEAN :
          IF createOk
          THEN /\ file' = Truncated(file, now)
               /\ lastChange' = [by |-> c, op |-> "create"]
               /\ pc' = [pc EXCEPT ![c] = "write"]
               /\ UNCHANGED result
          ELSE /\ result' = [result EXCEPT ![c] = Err("create")]
               /\ pc' = [pc EXCEPT ![c] = "done"]
               /\ UNCHANGED <<file, lastChange>>
    /\ UNCHANGED <<norm, undecodable, now, ticks, json_data, path, seen, readText, fetches,
                   fetchOrder, writeOrder>>

\* What a call returns when write_all failed: line 109's `?`.
WriteFailure(json) == Err("write")

\* Lines 109-112: file.write_all(..).await?, Ok(json_data).
Write(c) ==
    /\ pc[c] = "write"
    /\ \E writeOk \in BOOLEAN :
          IF writeOk
          THEN /\ file' = Written(file, ToStringPretty(json_data[c]), now)
               /\ writeOrder' = Append(writeOrder, c)
               /\ lastChange' = [by |-> c, op |-> "write"]
               /\ result' = [result EXCEPT ![c] = Ok(json_data[c])]
          ELSE /\ result' = [result EXCEPT ![c] = WriteFailure(json_data[c])]
               /\ UNCHANGED <<file, writeOrder, lastChange>>
    /\ pc' = [pc EXCEPT ![c] = "done"]
    /\ UNCHANGED <<norm, undecodable, now, ticks, json_data, path, seen, readText, fetches,
                   fetchOrder>>

\* One step of call c.
Step(c) == Check(c) \/ Read(c) \/ Fetch(c) \/ Create(c) \/ Write(c)

\* Time passes.
Tick ==
    /\ ticks < MaxTicks
    /\ \E d \in {1, CACHE_DURATION - 1} : now' = now + d
    /\ ticks' = ticks + 1
    /\ UNCHANGED <<norm, undecodable, file, pc, json_data, result, path, seen, readText, fetches,
                   fetchOrder, writeOrder, lastChange>>

\* The wall clock is set back (SystemTime is not monotonic).
ClockBack ==
    /\ ticks < MaxTicks
    /\ now > 0
    /\ now' = now - 1
    /\ ticks' = ticks + 1
    /\ UNCHANGED <<norm, undecodable, file, pc, json_data, result, path, seen, readText, fetches,
                   fetchOrder, writeOrder, lastChange>>

Next ==
    \/ \E c \in Calls : Check(c)
    \/ \E c \in Calls : Read(c)
    \/ \E c \in Calls : Fetch(c)
    \/ \E c \in Calls : Create(c)
    \/ \E c \in Calls : Write(c)
    \/ Tick
    \/ ClockBack

Spec == Init /\ [][Next]_vars

\* The runtime keeps polling every request's future, and every Fetcher and
\* storage operation returns: a call that can step eventually does.
FairSpec == Spec /\ \A c \in Calls : WF_vars(Step(c))

\* ------------------------------------------------- the normalizer on its own
\* fetch_sheet_data_from_google after the response has arrived, stage by
\* stage, on every text or table of the sets below.
MaxPieces == 5
MaxBoms == 1
MaxRows == 3
MaxCells == 3

\* Texts: up to MaxBoms byte-order marks, then up to MaxPieces of these.
Pieces == {<<",">>, <<";">>, <<"\n">>, Zip, <<"a">>}
RECURSIVE Flatten(_)
Flatten(ps) == IF ps = <<>> THEN <<>> ELSE Head(ps) \o Flatten(Tail(ps))
Bodies == UNION {{Flatten(ps) : ps \in [1..k -> Pieces]} : k \in 0..MaxPieces}
Boms(k) == [i \in 1..k |-> BOM]
Texts == {Boms(k) \o b : k \in 0..MaxBoms, b \in Bodies}

\* Tables: up to MaxRows rows of one to MaxCells cells; what a cell can hold
\* depends on its column.
Blank == <<" ">>
PaddedZip == <<" ">> \o Zip
PaddedCountry == Country \o <<" ">>
CellsAt(i) ==
    IF i = 1 THEN {PaddedCountry, <<"a">>, Blank}
    ELSE IF i = 2 THEN {PaddedZip, <<"a">>, Blank}
    ELSE {ColumnKey(0), <<"a">>, Blank}
AllCells == UNION {CellsAt(i) : i \in 1..MaxCells}
Rows ==
    UNION {{r \in [1..k -> AllCells] : \A i \in 1..k : r[i] \in CellsAt(i)}
              : k \in 1..MaxCells}
Tables == UNION {[1..k -> Rows] : k \in 0..MaxRows}

TextInit ==
    /\ CacheInit
    /\ norm \in {NormRun("text", t, <<>>, ",", <<>>, Pending, Pending) : t \in Texts}

TableInit ==
    /\ CacheInit
    /\ norm \in {NormRun("rows", <<>>, <<>>, ",", AllOk(t), Pending, Pending)
                    : t \in Tables}

\* Line 26.
StripBom ==
    /\ norm.stage = "text"
    /\ norm' = [norm EXCEPT !.stage = "stripped",
                            !.stripped = TrimStartMatchesBom(norm.text)]
    /\ UNCHANGED cacheVars

\* Lines 29-32.
DetectDelimiter ==
    /\ norm.stage = "stripped"
    /\ norm' = [norm EXCEPT !.stage = "detected",
                            !.delimiter = Delimiter(norm.stripped)]
    /\ UNCHANGED cacheVars

\* Lines 36-40 and the reader behind rdr.records().
ReadRecords ==
    /\ norm.stage = "detected"
    /\ norm' = [norm EXCEPT !.stage = "rows",
                            !.results = ReaderRecords(norm.stripped, norm.delimiter)]
    /\ UNCHANGED cacheVars

\* Lines 42-71.
ScanRecords ==
    /\ norm.stage = "rows"
    /\ norm' = [norm EXCEPT !.stage = "scanned",
                            !.scanned = ScanRows(norm.results, <<>>, <<>>)]
    /\ UNCHANGED cacheVars

\* Lines 73-81.
RemoveKeys ==
    /\ norm.stage = "scanned"
    /\ norm' = [norm EXCEPT !.stage = "done",
                            !.out = RemoveUnwantedAll(norm.scanned)]
    /\ UNCHANGED cacheVars

TextNext == StripBom \/ DetectDelimiter \/ ReadRecords \/ ScanRecords \/ RemoveKeys
TableNext == ScanRecords \/ RemoveKeys

\* The normalizer on every text of Texts.
TextSpec == TextInit /\ [][TextNext]_vars
\* The normalizer's loop and key removal on every table of Tables.
TableSpec == TableInit /\ [][TableNext]_vars

\* ------------------------------------------------------------------ claims
Done(c) == pc[c] = "done"
FetchOk(c) == \E i \in 1..Len(fetchOrder) : fetchOrder[i] = c
FetchFailed(c) == fetches[c] = 1 /\ pc[c] # "fetch" /\ ~FetchOk(c)

\* C1: a call serves the file without invoking the Fetcher exactly when the
\* freshness check read a file whose age is strictly below CACHE_DURATION, and
\* then returns exactly the snapshot it read; at every age from CACHE_DURATION
\* on, and without a file, it goes to the Fetcher.
CacheFreshness ==
    \A c \in Calls :
        path[c] # "none" =>
            /\ (path[c] = "hit") <=>
                  (/\ seen[c].metaOk /\ seen[c].modOk
                   /\ seen[c].age >= 0 /\ seen[c].age < CACHE_DURATION)
            /\ path[c] = "hit" => fetches[c] = 0 /\ pc[c] \in {"read", "done"}
            /\ path[c] = "miss" => pc[c] = "fetch" \/ fetches[c] = 1
            /\ (path[c] = "hit" /\ Done(c) /\ WellFormed(readText[c])) =>
                  /\ result[c].ok
                  /\ ToStringPretty(result[c].val) = readText[c]

\* C1: a call served a non-empty snapshot one second before it expired, and
\* the call that wrote it found no file.
CacheFreshnessWitness ==
    \E c, d \in Calls :
        /\ path[c] = "hit" /\ seen[c].age = CACHE_DURATION - 1
        /\ Done(c) /\ result[c].ok /\ Len(result[c].val) = 1
        /\ path[d] = "miss" /\ ~seen[d].exists /\ fetches[d] = 1

\* C2: a call returns an error only when its cache read did not succeed and
\* its own fetch was attempted and failed.
FailsOnlyIfBothFail ==
    \A c \in Calls :
        (Done(c) /\ ~result[c].ok) =>
            path[c] = "miss" /\ FetchFailed(c) /\ result[c].err \in {"fetch", "decode"}

\* C3: a call whose fetch succeeded returns the fetched records, also when
\* creating or writing the cache file failed.
WriteFailureNonFatal ==
    \A c \in Calls :
        (Done(c) /\ FetchOk(c)) => result[c] = Ok(json_data[c])

\* C4: a storage read failure, at the freshness check or when reading the
\* snapshot, sends the call to the Fetcher and is never returned as an error.
ReadFailureRefetches ==
    \A c \in Calls :
        /\ (path[c] # "none" /\ seen[c].exists /\ ~(seen[c].metaOk /\ seen[c].modOk))
              => path[c] = "miss"
        /\ result[c].err # "read"

\* C5: a miss whose fetch failed returns an error, whatever the file holds.
NoStaleFallback ==
    \A c \in Calls :
        (Done(c) /\ path[c] = "miss" /\ FetchFailed(c)) =>
            ~result[c].ok /\ result[c].err \in {"fetch", "decode"}

\* C5: a fetch failed while a complete but expired snapshot was on disk.
NoStaleFallbackWitness ==
    \E c \in Calls :
        /\ Done(c) /\ path[c] = "miss" /\ FetchFailed(c)
        /\ seen[c].metaOk /\ seen[c].modOk /\ seen[c].age >= CACHE_DURATION
        /\ file.exists /\ WellFormed(file.content)

\* Call c completed its write_all.
Wrote(c) == \E i \in 1..Len(writeOrder) : writeOrder[i] = c
\* Call c created (truncated) the file.
Touched(c) == pc[c] = "write" \/ Wrote(c) \/ result[c].err = "write"
\* The position of c in an order it occurs in.
PosIn(order, c) == CHOOSE i \in 1..Len(order) : order[i] = c
\* c and d are the two calls that missed together, before either had written,
\* both have returned their records, and no other call touched the file.
MissedTogether(c, d) ==
    /\ c # d
    /\ \A e \in {c, d} :
          /\ path[e] = "miss" /\ seen[e].writes = 0
          /\ Done(e) /\ result[e].ok
    /\ \A e \in Calls \ {c, d} : ~Touched(e)
IsPrefix(p, t) == Len(p) <= Len(t) /\ SubSeq(t, 1, Len(p)) = p

CallsComplete == \A c \in Calls : (path[c] # "none") ~> Done(c)

\* C7: two calls missed together on an empty cache, both went as far as
\* holding the file open at the same time, and both returned.
CallsCompleteWitness ==
    \E c, d \in Calls :
        /\ c # d
        /\ \A e \in {c, d} : path[e] = "miss" /\ ~seen[e].exists /\ Done(e)
        /\ result[c].ok /\ result[d].err = "write"

\* The calls that found the cache stale or absent before any call had written.
EarlyMisses == {c \in Calls : path[c] = "miss" /\ seen[c].writes = 0}

\* C8: each of the N calls that miss before any has written invokes the
\* Fetcher once, and when all of them succeed the file is overwritten N times.
NoDeduplication ==
    /\ \A c \in Calls : fetches[c] <= 1
    /\ \A c \in EarlyMisses : pc[c] # "fetch" => fetches[c] = 1
    /\ (\A c \in EarlyMisses : Done(c) /\ result[c].ok) =>
          Cardinality({i \in 1..Len(writeOrder) : writeOrder[i] \in EarlyMisses})
             = Cardinality(EarlyMisses)

\* C8: two calls missed before any write, both fetched and both wrote.
NoDeduplicationWitness ==
    /\ Cardinality(EarlyMisses) >= 2
    /\ \A c \in EarlyMisses : Done(c) /\ result[c].ok /\ fetches[c] = 1
    /\ Len(writeOrder) >= 2

\* C9: the file changes only in the create and write steps of a call on the
\* miss path; the steps of a call on the hit path leave it as it is.
OnlyMissWrites ==
    [][/\ file' # file =>
            \E c \in Calls :
                /\ path[c] = "miss"
                /\ pc[c] \in {"create", "write"}
                /\ pc'[c] # pc[c]
       /\ \A c \in Calls :
            (path'[c] = "hit" /\ pc'[c] # pc[c]) => file' = file]_vars

\* C9: a hit returned a snapshot written earlier, whose last-write time is
\* still the earlier one.
OnlyMissWritesWitness ==
    \E c \in Calls :
        /\ path[c] = "hit" /\ Done(c) /\ result[c].ok
        /\ file.exists /\ file.mtime < now

\* C10: after a successful miss, with no later change of the file, the file
\* is the serialization of the records the miss returned, and a call that
\* checks it within CACHE_DURATION takes the hit path and returns the same
\* records without fetching.
MissPersistsItsRecords ==
    \A c \in Calls :
        (Done(c) /\ result[c].ok /\ lastChange = [by |-> c, op |-> "write"]) =>
            /\ file.content = ToStringPretty(result[c].val)
            /\ \A d \in Calls :
                  (/\ path[d] # "none" /\ seen[d].writes = Len(writeOrder)
                   /\ seen[d].metaOk /\ seen[d].modOk
                   /\ seen[d].age >= 0 /\ seen[d].age < CACHE_DURATION) =>
                      /\ path[d] = "hit" /\ fetches[d] = 0
                      /\ (Done(d) /\ result[d].err # "read") => result[d] = result[c]

\* C11: when a miss fetched its records but failed to create or write the
\* file, and no call has ever written it, a call that checks afterwards finds
\* the cache not fresh and goes to the Fetcher.
WriteFailureLeavesUnpersisted ==
    \A c, d \in Calls :
        (/\ Done(c) /\ FetchOk(c) /\ result[c].err \in {"create", "write"}
         /\ path[d] # "none" /\ c \in seen[d].done /\ seen[d].writes = 0) =>
            path[d] = "miss"

\* ------------------------------------------- claims about the normalizer
\* The rows the normalizer was given, as the reader produced them.
InRow(i) == norm.results[i].rec
\* The row's second cell trims to "Zip".
SecondCellIsZip(row) == Len(row) >= 2 /\ Trim(row[2]) = <<"Z", "i", "p">>
HasZipRow == \E i \in 1..Len(norm.results) : SecondCellIsZip(InRow(i))
\* The index of the first row whose second cell trims to "Zip".
HeaderIndex ==
    CHOOSE i \in 1..Len(norm.results) :
        SecondCellIsZip(InRow(i)) /\ \A j \in 1..(i - 1) : ~SecondCellIsZip(InRow(j))
\* Every cell of the row is empty after trimming.
AllBlank(row) == \A i \in 1..Len(row) : Trim(row[i]) = <<>>
\* The rows after the header that are not blank, in the table's order.
DataRows ==
    IF ~HasZipRow THEN <<>>
    ELSE LET after == [i \in 1..(Len(norm.results) - HeaderIndex) |->
                          InRow(HeaderIndex + i)]
         IN  SelectSeq(after, LAMBDA row : ~AllBlank(row))
\* The key the claims give the cell at zero-based position i.
ClaimedKey(i) ==
    LET header == InRow(HeaderIndex) IN
    IF i < Len(header) /\ Trim(header[i + 1]) # <<>>
    THEN Trim(header[i + 1])
    ELSE <<"c", "o", "l", "u", "m", "n", "_">> \o Decimal(i)
Scanned == norm.stage \in {"scanned", "done"} /\ norm.scanned.ok
Normalized == norm.stage = "done" /\ norm.out.ok

\* C12: a table with no row whose second cell trims to "Zip" normalizes to
\* the empty sequence, not to an error.
NoHeaderGivesEmpty ==
    (norm.stage = "done" /\ ~HasZipRow) => norm.out = Ok(<<>>)

\* C12: three rows, none a header: one of a single cell, one with a second
\* cell that is not "Zip".
NoHeaderGivesEmptyWitness ==
    /\ norm.stage = "done" /\ ~HasZipRow /\ Len(norm.results) = 3
    /\ \E i, j \in 1..3 :
          /\ Len(InRow(i)) = 1 /\ ~AllBlank(InRow(i))
          /\ Len(InRow(j)) = 3 /\ InRow(j)[2] = <<"a">>
    /\ norm.out = Ok(<<>>)

\* C13: no record of the output has the key "Country" or "column_0".
NoUnwantedKeys ==
    Normalized =>
        \A k \in 1..Len(norm.out.val) :
            /\ <<"C", "o", "u", "n", "t", "r", "y">> \notin DOMAIN norm.out.val[k]
            /\ <<"c", "o", "l", "u", "m", "n", "_", "0">> \notin DOMAIN norm.out.val[k]

\* C13: the header names "Country " first and "column_0" third, the data row
\* has a value in each, and the record keeps the Zip entry alone.
NoUnwantedKeysWitness ==
    /\ Normalized /\ Len(norm.results) >= 2
    /\ InRow(1) = <<PaddedCountry, PaddedZip, ColumnKey(0)>>
    /\ InRow(2) = <<<<"a">>, <<"a">>, <<"a">>>>
    /\ DOMAIN norm.out.val[1] = {Zip}

\* C15: the record of a data row holds, for every cell position i, the
\* trimmed cell under the trimmed header cell at i, or under column_<i> when
\* the header has no cell there or a blank one.
CellsKeyedByPosition ==
    (Scanned /\ HasZipRow /\ Len(norm.scanned.val) = Len(DataRows)) =>
        \A k \in 1..Len(DataRows) :
            \A i \in 0..(Len(DataRows[k]) - 1) :
                /\ ClaimedKey(i) \in DOMAIN norm.scanned.val[k]
                /\ norm.scanned.val[k][ClaimedKey(i)] = Trim(DataRows[k][i + 1])

\* C16: the keys of a record come from the cells of its own row: a column the
\* row is too short for gets no placeholder and no entry of its own.
ShortRowHasNoTrailingKeys ==
    (Scanned /\ HasZipRow /\ Len(norm.scanned.val) = Len(DataRows)) =>
        \A k \in 1..Len(DataRows) :
            LET n == Len(DataRows[k])
                own == {ClaimedKey(i) : i \in 0..(n - 1)}
                rec == norm.scanned.val[k]
            IN  /\ DOMAIN rec \subseteq own
                /\ \A j \in n..(Len(InRow(HeaderIndex)) - 1) :
                      /\ ClaimedKey(j) \notin own => ClaimedKey(j) \notin DOMAIN rec
                      /\ (<<"c", "o", "l", "u", "m", "n", "_">> \o Decimal(j))
                            \notin DOMAIN rec
                /\ norm.stage = "done" => DOMAIN norm.out.val[k] \subseteq own

\* C16: a header of three named columns and a data row of two cells: the
\* record has the first two keys and none for the third.
ShortRowHasNoTrailingKeysWitness ==
    /\ Normalized /\ Len(norm.results) >= 2
    /\ InRow(1) = <<PaddedCountry, PaddedZip, <<"a">>>>
    /\ InRow(2) = <<<<"a">>, <<"a">>>>
    /\ DOMAIN norm.scanned.val[1] = {Country, Zip}
    /\ DOMAIN norm.out.val[1] = {Zip}

\* C17: the output has one record per non-blank row after the header, in the
\* order of the rows; without a header, or with nothing after it, it is empty.
OneRecordPerDataRow ==
    Normalized =>
        /\ Len(norm.out.val) = Len(DataRows)
        /\ \A k \in 1..Len(DataRows) :
              norm.out.val[k] =
                  RemoveUnwanted(JsonRecord(InRow(HeaderIndex), DataRows[k]))

\* C17: a header and two data rows that give different records.
OneRecordPerDataRowWitness ==
    /\ Normalized /\ Len(norm.results) = 3 /\ HasZipRow /\ HeaderIndex = 1
    /\ Len(norm.out.val) = 2
    /\ norm.out.val[1] # norm.out.val[2]
    /\ DOMAIN norm.out.val[1] # {}

\* C18: the cells of a data row are stored under distinct keys: before the
\* unwanted keys are removed, the record of a row of n cells has n entries.
KeysOneToOne ==
    (Scanned /\ HasZipRow /\ Len(norm.scanned.val) = Len(DataRows)) =>
        \A k \in 1..Len(DataRows) :
            Cardinality(DOMAIN norm.scanned.val[k]) = Len(DataRows[k])

\* C19: a call whose response the reader cannot decode returns an error and
\* no records, and has not created or written the file.
DecodeErrorAborts ==
    \A c \in undecodable :
        /\ Done(c) /\ ~result[c].ok /\ result[c].err = "decode"
        /\ result[c].val = <<>> /\ json_data[c] = <<>>
        /\ ~FetchOk(c) /\ ~Touched(c) /\ lastChange.by # c

\* C19: the response could not be decoded while an expired snapshot was on
\* disk; the snapshot is as the other call wrote it.
DecodeErrorAbortsWitness ==
    \E c \in undecodable :
        /\ Done(c) /\ seen[c].age >= CACHE_DURATION
        /\ file.exists /\ WellFormed(file.content)
        /\ lastChange.op = "write" /\ lastChange.by # c

\* The first line of the stripped text ends before its first line feed.
FirstLineLength ==
    LET t == norm.stripped IN
    IF \E i \in 1..Len(t) : t[i] = "\n"
    THEN (CHOOSE i \in 1..Len(t) : t[i] = "\n" /\ \A j \in 1..(i - 1) : t[j] # "\n") - 1
    ELSE Len(t)
CountInFirstLine(ch) ==
    Cardinality({i \in 1..FirstLineLength : norm.stripped[i] = ch})
RECURSIVE Join(_, _)
Join(fields, ch) ==
    IF Len(fields) = 1 THEN fields[1]
    ELSE fields[1] \o <<ch>> \o Join(Tail(fields), ch)
NonEmptyLines == SelectSeq(SplitOn(norm.stripped, "\n"), LAMBDA l : l # <<>>)

\* C14: the delimiter is the semicolon when the first line of the stripped
\* text has more semicolons than commas and the comma otherwise, and every
\* row is split at that delimiter alone.
DelimiterByFirstLine ==
    /\ norm.stage \in {"detected", "rows", "scanned", "done"} =>
          norm.delimiter =
              IF CountInFirstLine(";") > CountInFirstLine(",") THEN ";" ELSE ","
    /\ norm.stage \in {"rows", "scanned", "done"} =>
          /\ Len(norm.results) = Len(NonEmptyLines)
          /\ \A k \in 1..Len(norm.results) :
                /\ norm.results[k].ok
                /\ Join(InRow(k), norm.delimiter) = NonEmptyLines[k]
                /\ \A i \in 1..Len(InRow(k)) :
                      \A j \in 1..Len(InRow(k)[i]) : InRow(k)[i][j] # norm.delimiter

\* C14: the first line has a comma and more semicolons, and a later row
\* keeps its comma inside a field.
DelimiterByFirstLineWitness ==
    /\ norm.stage = "done" /\ norm.delimiter = ";"
    /\ CountInFirstLine(",") = 1 /\ CountInFirstLine(";") = 2
    /\ Len(norm.results) = 2
    /\ InRow(2) = <<<<",">>>>

\* The normalizer applied to a text in one go.
NormalizeText(text) ==
    LET stripped == TrimStartMatchesBom(text)
    IN  Normalize(ReaderRecords(stripped, Delimiter(stripped)))

\* C20: a text that begins with a byte-order mark normalizes to what the
\* text without it normalizes to, with the same delimiter and rows.
BomMakesNoDifference ==
    (norm.text # <<>> /\ Head(norm.text) = BOM) =>
        /\ norm.stage \in {"detected", "rows", "scanned", "done"} =>
              norm.delimiter = Delimiter(TrimStartMatchesBom(Tail(norm.text)))
        /\ norm.stage \in {"rows", "scanned", "done"} =>
              norm.results =
                  ReaderRecords(TrimStartMatchesBom(Tail(norm.text)), norm.delimiter)
        /\ norm.stage = "done" => norm.out = NormalizeText(Tail(norm.text))

\* C20: a text with a byte-order mark, semicolons and a header gave a
\* record.
BomMakesNoDifferenceWitness ==
    /\ norm.stage = "done" /\ norm.text # <<>> /\ Head(norm.text) = BOM
    /\ norm.delimiter = ";"
    /\ norm.out.ok /\ Len(norm.out.val) = 1
    /\ DOMAIN norm.out.val[1] = {<<"a">>}

\* C21: the header is the first row whose second cell trims to "Zip" and
\* stays it: a later row that passes the header test gives a record like any
\* other row, and it and the rows after it are keyed by the first header.
HeaderSetOnce ==
    (Scanned /\ HasZipRow) =>
        /\ Len(norm.scanned.val) = Len(DataRows)
        /\ \A k \in 1..Len(DataRows) :
              DOMAIN norm.scanned.val[k] =
                  {ClaimedKey(i) : i \in 0..(Len(DataRows[k]) - 1)}
        /\ \A i \in (HeaderIndex + 1)..Len(norm.results) :
              SecondCellIsZip(InRow(i)) =>
                  \E k \in 1..Len(DataRows) :
                      /\ DataRows[k] = InRow(i)
                      /\ Zip \in DOMAIN norm.scanned.val[k]

\* C21: a header of two columns, then a row that passes the header test with
\* other names in three columns, then a data row of three cells: two records,
\* the last one under the names of the first header.
HeaderSetOnceWitness ==
    /\ Normalized /\ Len(norm.results) = 3
    /\ InRow(1) = <<<<"a">>, PaddedZip>>
    /\ InRow(2) = <<PaddedCountry, PaddedZip, <<"a">>>>
    /\ InRow(3) = <<<<"a">>, <<"a">>, <<"a">>>>
    /\ Len(norm.scanned.val) = 2
    /\ DOMAIN norm.scanned.val[1] = {<<"a">>, Zip, ColumnKey(2)}
    /\ DOMAIN norm.scanned.val[2] = {<<"a">>, Zip, ColumnKey(2)}

\* C22: the step in which a call's fetch or normalization fails leaves the
\* file as it is, content and last-write time, and the call has returned: it
\* takes no further step.
FailedFetchLeavesSnapshot ==
    [][\A c \in Calls :
          /\ (pc[c] = "fetch" /\ pc'[c] = "done") =>
                /\ ~result'[c].ok /\ result'[c].err \in {"fetch", "decode"}
                /\ file' = file
                /\ lastChange' = lastChange
          /\ (pc[c] = "done" /\ path[c] = "miss" /\ ~FetchOk(c)) =>
                /\ pc'[c] = "done"
                /\ lastChange'.by # c]_vars

\* C22: a fetch failed on a snapshot that had expired; the snapshot is still
\* there, complete and expired, and the failed call never touched it.
FailedFetchLeavesSnapshotWitness ==
    \E c \in Calls :
        /\ Done(c) /\ path[c] = "miss" /\ FetchFailed(c) /\ result[c].err = "fetch"
        /\ seen[c].exists /\ seen[c].age = CACHE_DURATION
        /\ file.exists /\ file.content # <<>> /\ WellFormed(file.content)
        /\ now - file.mtime = CACHE_DURATION
        /\ ~UseCache(file, now, TRUE, TRUE)
        /\ lastChange.by # c /\ lastChange.op = "write"

\* C23: a call on the hit path whose read succeeds returns, without error,
\* the complete records of some call's fetch, never an empty or partly
\* written file.
HitSeesCompleteSnapshot ==
    \A c \in Calls :
        (path[c] = "hit" /\ Done(c) /\ result[c].err # "read") =>
            /\ result[c].ok
            /\ \E d \in Calls : FetchOk(d) /\ result[c].val = json_data[d]

\* C24: a call that finds the file with a last-write time later than the
\* clock takes the miss path and invokes the Fetcher; it neither reads the
\* file nor returns an error of the cache.
FutureSnapshotRefetches ==
    \A c \in Calls :
        (path[c] # "none" /\ seen[c].exists /\ seen[c].age = -1) =>
            /\ path[c] = "miss"
            /\ pc[c] = "fetch" \/ fetches[c] = 1
            /\ readText[c] = <<>>
            /\ result[c].err \notin {"read", "parse"}

\* C24: the clock was set back after a write; the next call found the file's
\* time ahead of the clock although its metadata could be read, fetched and
\* returned its records.
FutureSnapshotRefetchesWitness ==
    \E c \in Calls :
        /\ seen[c].exists /\ seen[c].metaOk /\ seen[c].modOk /\ seen[c].age = -1
        /\ seen[c].writes = 1
        /\ path[c] = "miss" /\ fetches[c] = 1 /\ Done(c) /\ result[c].ok

====
